---- MODULE Spec2Model ----
(***************************************************************************)
(* A model of the Veetaa price discovery engine (veetaa-proto):            *)
(*   fallback_service.py  FallbackScraper                                  *)
(*   scraper_service.py   ScraperService                                   *)
(*   main_simple.py       the /api/search and /api/inspect endpoints       *)
(* Texts and URLs are sequences of one-character strings, so that the      *)
(* regular expressions and the substring tests of the code are computed    *)
(* character by character.  A price is a pair [i, f]: integer part and     *)
(* hundredths (the patterns capture at most two decimals).                 *)
(***************************************************************************)
EXTENDS Integers, Sequences, FiniteSets, TLC

VARIABLES
    \* ---- price extraction (SpecPrice) ----
    text,        \* the text handed to the extractors
    pp_done,     \* FallbackScraper._parse_price has been applied
    pp_result,   \* its return value
    ep_done,     \* ScraperService._extract_price has been applied
    ep_result,   \* its return value
    \* ---- one search request (Spec) ----
    has_app,         \* ScraperService.app is set (an API key is configured)
    pc,              \* where the request is
    primary_kind,    \* what the primary API call did
    primary_results, \* `results` of search_products after strategy 1
    fallback_calls,  \* the number of calls of FallbackScraper.search
    agg_kind,        \* what the search engine request did
    agg_results,     \* the return value of scrape_search_engine
    amz_kind,
    amz_results,     \* the return value of scrape_amazon
    fk_kind,
    fk_results,      \* the return value of scrape_flipkart
    trace,           \* the calls made so far, in order
    fb_result,       \* the return value of FallbackScraper.search
    svc_result,      \* the return value of ScraperService.search_products
    prices,          \* SearchResponse.prices
    best_price,      \* SearchResponse.best_price: <<>> for None, else <<snapshot>>
    confidence,      \* confidence_score, in tenths
    \* ---- the process and its requests (SpecSessions) ----
    sessions,        \* the requests.Session objects constructed so far
    closed,          \* those that were closed
    scraper_session, \* scraper.fallback.session, scraper being the module-level object
    req,             \* per request: its endpoint, where it is, the calls it made,
                     \* the sessions its HTTP calls went through
    \* ---- one inspect request (SpecInspect) ----
    inspect_pc,      \* where the request is
    req_url,         \* req.url of the inspect request
    scrape_kind,     \* what app.scrape_url did
    inspect_trace,   \* the calls made so far, in order
    fetched,         \* the urls requested with session.get so far, in order
    page_data,       \* what the parse_page call of scrape_page returned
    response         \* what inspect_url returned

price_vars == <<text, pp_done, pp_result, ep_done, ep_result>>
search_vars == <<has_app, pc, primary_kind, primary_results, fallback_calls,
                 agg_kind, agg_results, amz_kind, amz_results, fk_kind, fk_results,
                 trace, fb_result, svc_result, prices, best_price, confidence>>
session_vars == <<sessions, closed, scraper_session, req>>
inspect_vars == <<inspect_pc, req_url, scrape_kind, inspect_trace, fetched, page_data, response>>
vars == <<price_vars, search_vars, session_vars, inspect_vars>>

-----------------------------------------------------------------------------
(* Characters *)

\* Python's None where a text is expected (no text holds this element)
None == <<"None">>
RUPEE == "₹"
NBSP == "nbsp"          \* '\xa0'

UpperLetters == <<"A","B","C","D","E","F","G","H","I","J","K","L","M",
                  "N","O","P","Q","R","S","T","U","V","W","X","Y","Z">>
LowerLetters == <<"a","b","c","d","e","f","g","h","i","j","k","l","m",
                  "n","o","p","q","r","s","t","u","v","w","x","y","z">>

UpperSet == {UpperLetters[k] : k \in 1..26}

\* F applied to the value of v: v is evaluated once, whatever F does with it
Bind(v, F(_)) == CHOOSE r \in {F(x) : x \in {v}} : TRUE

\* str.lower() on one character; also what re.IGNORECASE compares
LowerChar(c) ==
    IF c \in UpperSet
    THEN LowerLetters[CHOOSE k \in 1..26 : UpperLetters[k] = c]
    ELSE c

Lower(s) == [k \in 1..Len(s) |-> LowerChar(s[k])]

IsDigit(c) == c \in {"0","1","2","3","4","5","6","7","8","9"}   \* \d
IsNumChar(c) == IsDigit(c) \/ c = ","                           \* [\d,]
IsSpace(c) == c \in {" ", NBSP}                                 \* \s

DigitVal(c) == CASE c = "0" -> 0 [] c = "1" -> 1 [] c = "2" -> 2 [] c = "3" -> 3
                 [] c = "4" -> 4 [] c = "5" -> 5 [] c = "6" -> 6 [] c = "7" -> 7
                 [] c = "8" -> 8 [] c = "9" -> 9

\* t[i..j]
Slice(t, i, j) == IF j < i THEN <<>> ELSE SubSeq(t, i, j)

\* Python's  sub in s
Contains(s, sub) ==
    \E i \in 1..(Len(s) - Len(sub) + 1) : SubSeq(s, i, i + Len(sub) - 1) = sub

\* text.replace('\xa0', ' ')
ReplaceNbsp(t) == [k \in 1..Len(t) |-> IF t[k] = NBSP THEN " " ELSE t[k]]

\* str.strip()
Strip(t) ==
    LET keep == {k \in 1..Len(t) : ~IsSpace(t[k])}
    IN IF keep = {} THEN <<>>
       ELSE LET lo == CHOOSE k \in keep : \A m \in keep : k <= m
                hi == CHOOSE k \in keep : \A m \in keep : m <= k
            IN SubSeq(t, lo, hi)

-----------------------------------------------------------------------------
(* Regular expressions of the price extractors, matched with re.IGNORECASE *)

\* the literal lit (lower case) occurs in t at position i
MatchLit(t, i, lit) ==
    /\ i + Len(lit) - 1 <= Len(t)
    /\ \A k \in 1..Len(lit) : LowerChar(t[i + k - 1]) = lit[k]

RECURSIVE SkipSpaces(_, _)
\* \s* from position i: the first position that holds no whitespace
SkipSpaces(t, i) ==
    IF i <= Len(t) /\ IsSpace(t[i]) THEN SkipSpaces(t, i + 1) ELSE i

RECURSIVE NumRunEnd(_, _)
\* [\d,]+ from position i (greedy): the first position after the run
NumRunEnd(t, i) ==
    IF i <= Len(t) /\ IsNumChar(t[i]) THEN NumRunEnd(t, i + 1) ELSE i

\* (?:₹|Rs\.?|INR) at position i: the position after the marker, 0 if none
MarkerEnd(t, i) ==
    IF MatchLit(t, i, <<RUPEE>>) THEN i + 1
    ELSE IF MatchLit(t, i, <<"r","s">>)
         THEN (IF i + 2 <= Len(t) /\ t[i + 2] = "." THEN i + 3 ELSE i + 2)
    ELSE IF MatchLit(t, i, <<"i","n","r">>) THEN i + 3
    ELSE 0

\* (?:\.\d{1,2})? from position e (greedy): the position after it
DecimalsEnd(t, e) ==
    IF e + 1 <= Len(t) /\ t[e] = "." /\ IsDigit(t[e + 1])
    THEN (IF e + 2 <= Len(t) /\ IsDigit(t[e + 2]) THEN e + 3 ELSE e + 2)
    ELSE e

NoMatch == [ok |-> FALSE, group |-> <<>>, end |-> 0]

\* r'(?:₹|Rs\.?|INR)\s*([\d,]+(?:\.\d{1,2})?)' anchored at position i
PrefixMatchAt(t, i) ==
    Bind(MarkerEnd(t, i), LAMBDA j :
        IF j = 0 THEN NoMatch
        ELSE Bind(SkipSpaces(t, j), LAMBDA k :
             Bind(NumRunEnd(t, k), LAMBDA e :
             Bind(DecimalsEnd(t, e), LAMBDA d :
                 IF e = k THEN NoMatch
                 ELSE [ok |-> TRUE, group |-> Slice(t, k, d - 1), end |-> d]))))

\* r'([\d,]+)\s*(?:Rs\.?|INR)' anchored at position i
SuffixMatchAt(t, i) ==
    Bind(NumRunEnd(t, i), LAMBDA e :
    Bind(SkipSpaces(t, e), LAMBDA k :
    Bind(MarkerEnd(t, k), LAMBDA j :
        IF e = i \/ j = 0 THEN NoMatch
        ELSE [ok |-> TRUE, group |-> Slice(t, i, e - 1), end |-> j])))

\* r'Price:\s*([\d,]+)' anchored at position i
PriceLabelMatchAt(t, i) ==
    Bind(SkipSpaces(t, i + 6), LAMBDA k :
    Bind(NumRunEnd(t, k), LAMBDA e :
        IF ~MatchLit(t, i, <<"p","r","i","c","e",":">>) \/ e = k THEN NoMatch
        ELSE [ok |-> TRUE, group |-> Slice(t, k, e - 1), end |-> e]))

PatPrefix == "prefix"
PatSuffix == "suffix"
PatLabel == "label"

MatchAt(pat, t, i) ==
    CASE pat = PatPrefix -> PrefixMatchAt(t, i)
      [] pat = PatSuffix -> SuffixMatchAt(t, i)
      [] pat = PatLabel -> PriceLabelMatchAt(t, i)

\* re.findall(pat, t, re.IGNORECASE): the groups of the non-overlapping
\* matches, leftmost first; from[i] is what the scan finds from position i on
FindAll(pat, t) ==
    LET from[i \in 1..(Len(t) + 1)] ==
            IF i > Len(t) THEN <<>>
            ELSE Bind(MatchAt(pat, t, i), LAMBDA m :
                     IF m.ok THEN <<m.group>> \o from[m.end] ELSE from[i + 1])
    IN from[1]

-----------------------------------------------------------------------------
(* float(match.replace(',', '')) *)

RemoveCommas(m) == SelectSeq(m, LAMBDA c : c # ",")

RECURSIVE DigitsValue(_)
DigitsValue(ds) ==
    IF ds = <<>> THEN 0
    ELSE 10 * DigitsValue(SubSeq(ds, 1, Len(ds) - 1)) + DigitVal(ds[Len(ds)])

Price(i, f) == [i |-> i, f |-> f]
Zero == Price(0, 0)

\* float() of a cleaned group: [ok |-> FALSE] stands for ValueError
ToFloat(clean) ==
    LET dots == {k \in 1..Len(clean) : clean[k] = "."}
    IN IF clean = <<>> THEN [ok |-> FALSE, val |-> Zero]
       ELSE IF dots = {}
       THEN [ok |-> TRUE, val |-> Price(DigitsValue(clean), 0)]
       ELSE LET p == CHOOSE k \in dots : TRUE
                ip == Slice(clean, 1, p - 1)
                fp == Slice(clean, p + 1, Len(clean))
            IN [ok |-> TRUE,
                val |-> Price(DigitsValue(ip),
                              IF Len(fp) = 1 THEN 10 * DigitsValue(fp)
                              ELSE DigitsValue(fp))]

\* comparisons of a price with a whole number, and of two prices
Gt(v, n) == v.i > n \/ (v.i = n /\ v.f > 0)
Lt(v, n) == v.i < n
Eq(v, n) == v.i = n /\ v.f = 0
Less(v, w) == v.i < w.i \/ (v.i = w.i /\ v.f < w.f)
Positive(v) == Gt(v, 0)

\* the values of the matches of all patterns, in pattern order then in
\* order of appearance, the matches float() rejects left out (continue)
Candidates(patterns, t) ==
    LET all[k \in 1..(Len(patterns) + 1)] ==
            IF k > Len(patterns) THEN <<>>
            ELSE FindAll(patterns[k], t) \o all[k + 1]
    IN Bind(all[1], LAMBDA matches :
       Bind(SelectSeq([k \in 1..Len(matches) |-> ToFloat(RemoveCommas(matches[k]))],
                      LAMBDA r : r.ok),
            LAMBDA valid : [k \in 1..Len(valid) |-> valid[k].val]))

-----------------------------------------------------------------------------
(* The two extractors *)

LowerBoundFallback == 49
UpperBoundFallback == 10000000
LowerBoundService == 50
ExcludedYears == {2023, 2024, 2025}

\* fallback_service.py:292
PlausibleFallback(val) == Gt(val, LowerBoundFallback) /\ Lt(val, UpperBoundFallback)

\* scraper_service.py:169
PlausibleService(val) == Gt(val, LowerBoundService) /\ \A y \in ExcludedYears : ~Eq(val, y)

\* FallbackScraper._parse_price
_parse_price(txt) ==
    IF txt = None \/ txt = <<>> THEN Zero
    ELSE Bind(Strip(ReplaceNbsp(txt)), LAMBDA t :
         Bind(SelectSeq(Candidates(<<PatPrefix, PatSuffix>>, t), PlausibleFallback),
              LAMBDA ok : IF ok = <<>> THEN Zero ELSE Head(ok)))

\* ScraperService._extract_price
_extract_price(txt) ==
    IF txt = None \/ txt = <<>> THEN Zero
    ELSE Bind(ReplaceNbsp(txt), LAMBDA t :
         Bind(SelectSeq(Candidates(<<PatPrefix, PatLabel>>, t), PlausibleService),
              LAMBDA ok : IF ok = <<>> THEN Zero ELSE Head(ok)))

-----------------------------------------------------------------------------
(* Sample texts: up to MaxGroups currency groups separated by a word *)

MaxGroups == 2

N10 == <<"1","0">>
N49_5 == <<"4","9",".","5">>
N50 == <<"5","0">>
N1200 == <<"1",",","2","0","0">>
N999_50 == <<"9","9","9",".","5","0">>
N2024 == <<"2","0","2","4">>
N99999999 == <<"9","9","9","9","9","9","9","9">>

Numerals == {N10, N49_5, N50, N1200, N2024, N99999999}
PreMarkers == {<<>>, <<RUPEE>>, <<"R","s","."," ">>, <<"P","r","i","c","e",":"," ">>}

Groups ==
    {p \o n : p \in PreMarkers, n \in Numerals}
    \cup {<<"r","s",NBSP>> \o N999_50,
          <<"1","2","0","0"," ","R","s">>,
          <<"1","2",".","5","0"," ","R","s">>,
          N2024 \o <<"I","N","R">>,
          <<RUPEE, ",">>}

Separator == <<" ","o","r"," ">>

RECURSIVE TextsOf(_)
TextsOf(n) ==
    IF n = 0 THEN {<<>>}
    ELSE LET shorter == TextsOf(n - 1)
         IN shorter \cup {IF s = <<>> THEN g ELSE s \o Separator \o g :
                            s \in shorter, g \in Groups}

Texts == TextsOf(MaxGroups) \cup {None}

-----------------------------------------------------------------------------
(* Marketplace identification *)

NoMarketplace == "None"        \* _identify_marketplace's None
OnlineStore == "Online Store"

amazon_in == <<"a","m","a","z","o","n",".","i","n">>
flipkart_com == <<"f","l","i","p","k","a","r","t",".","c","o","m">>
croma_com == <<"c","r","o","m","a",".","c","o","m">>
croma == <<"c","r","o","m","a">>
reliancedigital == <<"r","e","l","i","a","n","c","e","d","i","g","i","t","a","l">>
jiomart == <<"j","i","o","m","a","r","t">>
tatacliq == <<"t","a","t","a","c","l","i","q">>

\* FallbackScraper._identify_marketplace
_identify_marketplace(url) ==
    LET u == Lower(url)
    IN IF Contains(u, amazon_in) THEN "Amazon"
       ELSE IF Contains(u, flipkart_com) THEN "Flipkart"
       ELSE IF Contains(u, croma_com) THEN "Croma"
       ELSE IF Contains(u, reliancedigital) THEN "Reliance Digital"
       ELSE IF Contains(u, jiomart) THEN "JioMart"
       ELSE IF Contains(u, tatacliq) THEN "Tata Cliq"
       ELSE NoMarketplace

\* the marketplace chain of ScraperService._parse_results
ParseResultsMarketplace(url) ==
    IF Contains(url, amazon_in) THEN "Amazon"
    ELSE IF Contains(url, flipkart_com) THEN "Flipkart"
    ELSE IF Contains(url, jiomart) THEN "JioMart"
    ELSE IF Contains(url, croma) THEN "Croma"
    ELSE OnlineStore

-----------------------------------------------------------------------------
(* Records.  The fields that are the same in every record (currency,      *)
(* original_price, discount_percentage) and the timestamp are left out.   *)

Record(marketplace, price, url, in_stock) ==
    [marketplace |-> marketplace, price |-> price, url |-> url, in_stock |-> in_stock]

\* the outcome of a block that may raise: exc says an exception left it,
\* val is what it had computed
Raised(val) == [exc |-> TRUE, val |-> val]
Normal(val) == [exc |-> FALSE, val |-> val]

Min(a, b) == IF a < b THEN a ELSE b
\* s[:n]
Take(s, n) == Slice(s, 1, Min(n, Len(s)))

-----------------------------------------------------------------------------
(* ScraperService: the primary extraction API *)

RECURSIVE ParseResultsLoop(_, _)
\* the loop of _parse_results over items, snapshots collected so far; an
\* item that is no mapping has no .get (AttributeError)
ParseResultsLoop(items, snapshots) ==
    IF items = <<>> THEN Normal(snapshots)
    ELSE LET item == Head(items)
             content == item.title \o <<" ">> \o item.description
             price == _extract_price(content)
         IN IF ~item.is_dict THEN Raised(snapshots)
            ELSE ParseResultsLoop(Tail(items),
                     Append(snapshots,
                            Record(ParseResultsMarketplace(item.url), price,
                                   item.url, Positive(price))))

\* ScraperService._parse_results
_parse_results(items) == ParseResultsLoop(items, <<>>)

\* the try block of strategy 1 (scraper_service.py:31-54): the value is
\* what `results` holds when the block is left
FirecrawlTry(outcome) ==
    LET items == IF outcome.kind \in {"dict", "list"} THEN outcome.items ELSE <<>>
        parsed == _parse_results(items)
    IN IF outcome.kind = "exception" THEN Raised(<<>>)
       ELSE IF items = <<>> THEN Normal(<<>>)
       ELSE IF parsed.exc THEN Raised(<<>>)
       ELSE Normal(parsed.val)

ExceptFirecrawlMissing(t) == t

\* except Exception (scraper_service.py:56-57): the exception is printed
\* and execution goes on with `results` as it is
ExceptFirecrawl(t) == Normal(t.val)

\* strategy 1 as a whole (scraper_service.py:29-57); without an app the
\* block is skipped
Strategy1(app, outcome) ==
    IF app THEN ExceptFirecrawl(FirecrawlTry(outcome)) ELSE Normal(<<>>)

NeedsFallbackAlways(results) == TRUE

\* if not results (scraper_service.py:61)
NeedsFallback(results) == results = <<>>

\* results.extend(fallback_results); return results (scraper_service.py:65-73)
ServiceReturn(results, fallback_results) ==
    IF fallback_results # <<>> THEN results \o fallback_results ELSE results

-----------------------------------------------------------------------------
(* FallbackScraper *)

AmazonBase == <<"h","t","t","p","s",":","/","/","w","w","w",".","a","m","a","z","o","n",".","i","n">>
FlipkartBase == <<"h","t","t","p","s",":","/","/","w","w","w",".","f","l","i","p","k","a","r","t",".","c","o","m">>

AggregatorCap == 12
DirectCap == 4

KeepResultAlways(marketplace, price) == TRUE

\* if marketplace or price > 0 (fallback_service.py:105)
KeepResult(marketplace, price) == marketplace # NoMarketplace \/ Positive(price)

RECURSIVE SearchEngineLoop(_, _)
\* the loop of scrape_search_engine over the result items; an item with a
\* title tag that has no href raises KeyError
SearchEngineLoop(raws, products) ==
    IF raws = <<>> THEN Normal(products)
    ELSE LET res == Head(raws)
             full_text == Strip(res.title) \o <<" ">> \o Strip(res.snippet)
             marketplace == _identify_marketplace(res.href)
             price == _parse_price(full_text)
         IN IF ~res.title_tag THEN SearchEngineLoop(Tail(raws), products)
            ELSE IF res.href = None THEN Raised(products)
            ELSE IF KeepResult(marketplace, price)
            THEN SearchEngineLoop(Tail(raws),
                     Append(products,
                            Record(IF marketplace # NoMarketplace THEN marketplace
                                   ELSE OnlineStore,
                                   price, res.href, TRUE)))
            ELSE SearchEngineLoop(Tail(raws), products)

\* FallbackScraper.scrape_search_engine: whatever happens in the try block,
\* the products collected so far are returned, except that a status other
\* than 200 returns []
scrape_search_engine(outcome) ==
    IF outcome.kind = "exception" THEN <<>>
    ELSE IF outcome.kind = "status" THEN <<>>
    ELSE SearchEngineLoop(Take(outcome.items, AggregatorCap), <<>>).val

RECURSIVE AmazonLoop(_, _)
AmazonLoop(raws, products) ==
    IF raws = <<>> THEN products
    ELSE LET item == Head(raws)
             price == _parse_price(item.price_text)
             full_link == IF item.link # None /\ item.link # <<>>
                          THEN AmazonBase \o item.link ELSE <<>>
         IN IF ~item.title THEN AmazonLoop(Tail(raws), products)
            ELSE IF Positive(price)
            THEN AmazonLoop(Tail(raws), Append(products, Record("Amazon", price, full_link, TRUE)))
            ELSE AmazonLoop(Tail(raws), products)

\* FallbackScraper.scrape_amazon
scrape_amazon(outcome) ==
    IF outcome.kind = "exception" THEN <<>>
    ELSE IF outcome.kind = "status" THEN <<>>
    ELSE AmazonLoop(Take(outcome.items, DirectCap), <<>>)

RECURSIVE FlipkartLoop(_, _, _)
FlipkartLoop(cards, products, count) ==
    IF cards = <<>> \/ count >= DirectCap THEN products
    ELSE LET card == Head(cards)
             full_link == IF card.link # <<>> THEN FlipkartBase \o card.link ELSE <<>>
             price == _parse_price(card.price_text)
         IN IF card.price_text = None \/ card.price_text = <<>>
            THEN FlipkartLoop(Tail(cards), products, count)
            ELSE IF ~card.link_tag THEN FlipkartLoop(Tail(cards), products, count)
            ELSE IF Positive(price)
            THEN FlipkartLoop(Tail(cards),
                              Append(products, Record("Flipkart", price, full_link, TRUE)),
                              count + 1)
            ELSE FlipkartLoop(Tail(cards), products, count)

\* FallbackScraper.scrape_flipkart
scrape_flipkart(outcome) ==
    IF outcome.kind = "exception" THEN <<>>
    ELSE IF outcome.kind = "status" THEN <<>>
    ELSE FlipkartLoop(outcome.items, <<>>, 0)

EscalateOnlyWhenEmpty(results) == Len(results) < 1

\* if len(results) < 2 (fallback_service.py:33)
Escalate(results) == Len(results) < 2

RECURSIVE DedupLoop(_, _, _)
\* the deduplication loop (fallback_service.py:51-56)
DedupLoop(results, unique_results, seen_urls) ==
    IF results = <<>> THEN unique_results
    ELSE LET r == Head(results)
         IN IF r.url \notin seen_urls
            THEN DedupLoop(Tail(results), Append(unique_results, r), seen_urls \cup {r.url})
            ELSE DedupLoop(Tail(results), unique_results, seen_urls)

\* the loop without seen_urls.add
DeduplicateNoAdd(results) == results

\* the deduplication of FallbackScraper.search (fallback_service.py:50-58)
Deduplicate(results) == DedupLoop(results, <<>>, {})

-----------------------------------------------------------------------------
(* main_simple.py: the search endpoint *)

Snapshot(p) == [marketplace |-> p.marketplace, price |-> p.price, url |-> p.url]

IsNewBestOrEqual(price, min_price) ==
    Positive(price) /\ (min_price = <<>> \/ ~Less(min_price[1], price))

\* p["price"] > 0 and p["price"] < min_price; min_price is <<>> for inf
IsNewBest(price, min_price) ==
    Positive(price) /\ (min_price = <<>> \/ Less(price, min_price[1]))

RECURSIVE BestLoop(_, _, _)
\* the loop of search() over real_prices: best_price_snapshot at the end,
\* <<>> for None
BestLoop(real_prices, min_price, best) ==
    IF real_prices = <<>> THEN best
    ELSE LET p == Head(real_prices)
         IN IF IsNewBest(p.price, min_price)
            THEN BestLoop(Tail(real_prices), <<p.price>>, <<Snapshot(p)>>)
            ELSE BestLoop(Tail(real_prices), min_price, best)

BestPriceOf(real_prices) == BestLoop(real_prices, <<>>, <<>>)

PriceSnapshots(real_prices) == [k \in 1..Len(real_prices) |-> Snapshot(real_prices[k])]

\* 0.8 if price_snapshots else 0.1, in tenths
Confidence(price_snapshots) == IF price_snapshots # <<>> THEN 8 ELSE 1

-----------------------------------------------------------------------------
(* Sample inputs of one search request *)

MaxItems == 2       \* results in one answer of the primary API or the search engine
MaxListings == 2    \* listings on one marketplace page

SeqsUpTo(S, n) == UNION {[1..k -> S] : k \in 0..n}

TV == <<"T","V">>
TitlePriced == TV \o <<" ", RUPEE>> \o N1200
TitleCheaper == TV \o <<" ","R","s","."," ">> \o N999_50
U_amazon_a == AmazonBase \o <<"/","a">>
U_flipkart_a == FlipkartBase \o <<"/","a">>
U_AMAZON_UPPER == <<"h","t","t","p","s",":","/","/","W","W","W",".","A","M","A","Z","O","N",".","I","N","/","d","p","/","x">>
U_shop == <<"h","t","t","p","s",":","/","/","s","h","o","p",".","i","o","/","x">>

Item(url, title) == [is_dict |-> TRUE, url |-> url, title |-> title, description |-> <<>>]
NonDict == [is_dict |-> FALSE, url |-> <<>>, title |-> <<>>, description |-> <<>>]

PrimaryItems == {Item(U_amazon_a, TitlePriced), Item(U_amazon_a, TV),
                 Item(U_shop, TitlePriced), Item(U_AMAZON_UPPER, TitleCheaper),
                 NonDict}

PrimaryOutcomes ==
    {[kind |-> k, items |-> <<>>] : k \in {"exception", "other"}}
    \cup {[kind |-> k, items |-> its] : k \in {"dict", "list"},
                                        its \in SeqsUpTo(PrimaryItems, MaxItems)}

Result(href, title) == [title_tag |-> TRUE, href |-> href, title |-> title, snippet |-> <<>>]

SearchEngineItems == {Result(U_amazon_a, TitlePriced), Result(U_amazon_a, TV),
                      Result(U_flipkart_a, TitleCheaper),
                      Result(U_shop, TitleCheaper), Result(U_shop, TV),
                      Result(None, TV),
                      [title_tag |-> FALSE, href |-> None, title |-> <<>>, snippet |-> <<>>]}

SearchEngineOutcomes ==
    {[kind |-> k, items |-> <<>>] : k \in {"exception", "status"}}
    \cup {[kind |-> "ok", items |-> its] : its \in SeqsUpTo(SearchEngineItems, MaxItems)}

AmazonItems == {[title |-> TRUE, price_text |-> <<RUPEE>> \o N1200, link |-> <<"/","a">>],
                [title |-> TRUE, price_text |-> <<RUPEE>> \o N999_50, link |-> <<"/","b">>],
                [title |-> TRUE, price_text |-> None, link |-> <<"/","a">>],
                [title |-> FALSE, price_text |-> None, link |-> None]}

AmazonOutcomes ==
    {[kind |-> k, items |-> <<>>] : k \in {"exception", "status"}}
    \cup {[kind |-> "ok", items |-> its] : its \in SeqsUpTo(AmazonItems, MaxListings)}

FlipkartItems == {[price_text |-> <<RUPEE>> \o N999_50, link_tag |-> TRUE, link |-> <<"/","a">>],
                  [price_text |-> <<RUPEE>> \o N1200, link_tag |-> TRUE, link |-> <<"/","b">>],
                  [price_text |-> <<RUPEE>> \o N10, link_tag |-> TRUE, link |-> <<"/","a">>],
                  [price_text |-> None, link_tag |-> FALSE, link |-> <<>>]}

FlipkartOutcomes ==
    {[kind |-> k, items |-> <<>>] : k \in {"exception", "status"}}
    \cup {[kind |-> "ok", items |-> its] : its \in SeqsUpTo(FlipkartItems, MaxListings)}

-----------------------------------------------------------------------------
(* The process: one module-level ScraperService, requests served by the    *)
(* worker threads of the server, so that requests may overlap              *)

NumRequests == 2
Requests == 1..NumRequests

\* the calls through self.session a request may make, in order: search()
\* reaches scrape_search_engine, scrape_amazon, scrape_flipkart;
\* inspect_url() reaches parse_page from scrape_page and again on its own
SessionCalls(endpoint) ==
    IF endpoint = "search"
    THEN <<"session.post ddg", "session.get amazon", "session.get flipkart">>
    ELSE <<"session.get page", "session.get page">>

Waiting == [endpoint |-> "", pc |-> "waiting", calls |-> <<>>, used |-> {}]

\* scraper = ScraperService() at import: FallbackScraper.__init__ constructs
\* the one requests.Session
SessionsQuiet ==
    /\ sessions = {0}
    /\ closed = {}
    /\ scraper_session = 0
    /\ req = [r \in Requests |-> Waiting]

RequestSessionOwn(r) == r

\* self.session in a method of scraper.fallback, called for request r
RequestSession(r) == scraper_session

\* a worker thread starts the handler of a request
BeginRequest(r) ==
    /\ req[r].pc = "waiting"
    /\ \E endpoint \in {"search", "inspect"} :
         req' = [req EXCEPT ![r].endpoint = endpoint, ![r].pc = "running"]
    /\ UNCHANGED <<sessions, closed, scraper_session>>
    /\ UNCHANGED <<price_vars, search_vars, inspect_vars>>

\* the next HTTP call of a running request
SessionCall(r) ==
    /\ req[r].pc = "running"
    /\ Len(req[r].calls) < Len(SessionCalls(req[r].endpoint))
    /\ req' = [req EXCEPT
                 ![r].calls = Append(@, SessionCalls(req[r].endpoint)[Len(@) + 1]),
                 ![r].used = @ \cup {RequestSession(r)}]
    /\ sessions' = sessions \cup {RequestSession(r)}
    /\ UNCHANGED <<closed, scraper_session>>
    /\ UNCHANGED <<price_vars, search_vars, inspect_vars>>

\* the handler returns its response, after any number of its calls
EndRequest(r) ==
    /\ req[r].pc = "running"
    /\ req' = [req EXCEPT ![r].pc = "responded"]
    /\ UNCHANGED <<sessions, closed, scraper_session>>
    /\ UNCHANGED <<price_vars, search_vars, inspect_vars>>

\* search() raises before it calls the scraper: req.product_name.split()[0]
\* with a product name of blanks (main_simple.py:86)
FailRequest(r) ==
    /\ req[r].pc = "running"
    /\ req[r].endpoint = "search"
    /\ req[r].calls = <<>>
    /\ req' = [req EXCEPT ![r].pc = "failed"]
    /\ UNCHANGED <<sessions, closed, scraper_session>>
    /\ UNCHANGED <<price_vars, search_vars, inspect_vars>>

NextSessions ==
    \E r \in Requests :
        BeginRequest(r) \/ SessionCall(r) \/ EndRequest(r) \/ FailRequest(r)

-----------------------------------------------------------------------------
(* Spec: one request to /api/search *)

PriceQuiet ==
    /\ text = <<>>
    /\ pp_done = FALSE /\ pp_result = Zero
    /\ ep_done = FALSE /\ ep_result = Zero

\* no inspect request has arrived
Pending == [kind |-> "pending", data |-> <<>>]
InspectQuiet ==
    /\ inspect_pc = "idle"
    /\ req_url = <<>>
    /\ scrape_kind = ""
    /\ inspect_trace = <<>> /\ fetched = <<>>
    /\ page_data = <<>>
    /\ response = Pending

SearchQuiet ==
    /\ pc = "idle"
    /\ primary_kind = "" /\ primary_results = <<>>
    /\ fallback_calls = 0
    /\ agg_kind = "" /\ agg_results = <<>>
    /\ amz_kind = "" /\ amz_results = <<>>
    /\ fk_kind = "" /\ fk_results = <<>>
    /\ trace = <<>>
    /\ fb_result = <<>> /\ svc_result = <<>>
    /\ prices = <<>> /\ best_price = <<>> /\ confidence = 0

\* ScraperService.__init__: the app exists when FIRECRAWL_API_KEY is set
Init ==
    /\ has_app \in BOOLEAN
    /\ SearchQuiet
    /\ PriceQuiet
    /\ SessionsQuiet
    /\ InspectQuiet

\* search() of main_simple.py once search_products has returned real_prices
Respond(real_prices) ==
    /\ svc_result' = real_prices
    /\ prices' = PriceSnapshots(real_prices)
    /\ best_price' = BestPriceOf(real_prices)
    /\ confidence' = Confidence(PriceSnapshots(real_prices))
    /\ pc' = "done"

\* the end of FallbackScraper.search with `results` collected, and what
\* search_products and search() do with its return value
FallbackReturn(results) ==
    /\ fb_result' = Deduplicate(results)
    /\ Respond(ServiceReturn(primary_results, Deduplicate(results)))

\* search() calls search_products: strategy 1, then either the response or
\* the call of FallbackScraper.search
FirecrawlSearch ==
    /\ pc = "idle"
    /\ \E outcome \in PrimaryOutcomes :
         LET t == Strategy1(has_app, outcome)
         IN /\ primary_kind' = IF ~has_app THEN "no_app"
                              ELSE IF FirecrawlTry(outcome).exc THEN "exception"
                              ELSE outcome.kind
            /\ trace' = IF has_app THEN Append(trace, "firecrawl.search") ELSE trace
            /\ IF t.exc
               THEN /\ pc' = "raised"
                    /\ UNCHANGED <<primary_results, fallback_calls, svc_result,
                                   prices, best_price, confidence>>
               ELSE /\ primary_results' = t.val
                    /\ IF NeedsFallback(t.val)
                       THEN /\ pc' = "aggregator"
                            /\ fallback_calls' = fallback_calls + 1
                            /\ UNCHANGED <<svc_result, prices, best_price, confidence>>
                       ELSE /\ Respond(t.val)
                            /\ UNCHANGED fallback_calls
    /\ UNCHANGED <<has_app, agg_kind, agg_results, amz_kind, amz_results,
                   fk_kind, fk_results, fb_result>>
    /\ UNCHANGED price_vars
    /\ UNCHANGED <<session_vars, inspect_vars>>

\* FallbackScraper.search up to the test of len(results)
ScrapeSearchEngine ==
    /\ pc = "aggregator"
    /\ \E outcome \in SearchEngineOutcomes :
         LET search_results == scrape_search_engine(outcome)
         IN /\ agg_kind' = outcome.kind
            /\ agg_results' = search_results
            /\ trace' = Append(trace, "scrape_search_engine")
            /\ IF Escalate(search_results)
               THEN /\ pc' = "amazon"
                    /\ UNCHANGED <<fb_result, svc_result, prices, best_price, confidence>>
               ELSE FallbackReturn(search_results)
    /\ UNCHANGED <<has_app, primary_kind, primary_results, fallback_calls,
                   amz_kind, amz_results, fk_kind, fk_results>>
    /\ UNCHANGED price_vars
    /\ UNCHANGED <<session_vars, inspect_vars>>

\* the calls of the first try block, in program order (fallback_service.py:37-38)
AmazonTryStepsDelayLast == <<"scrape_amazon", "sleep">>
AmazonTrySteps == <<"sleep", "scrape_amazon">>

\* the calls of the second try block, in program order (fallback_service.py:44-45)
FlipkartTrySteps == <<"sleep", "scrape_flipkart">>

\* the first try block of the escalation (fallback_service.py:35-41)
ScrapeAmazon ==
    /\ pc = "amazon"
    /\ \E outcome \in AmazonOutcomes :
         /\ amz_kind' = outcome.kind
         /\ amz_results' = scrape_amazon(outcome)
    /\ trace' = trace \o AmazonTrySteps
    /\ pc' = "flipkart"
    /\ UNCHANGED <<has_app, primary_kind, primary_results, fallback_calls,
                   agg_kind, agg_results, fk_kind, fk_results,
                   fb_result, svc_result, prices, best_price, confidence>>
    /\ UNCHANGED price_vars
    /\ UNCHANGED <<session_vars, inspect_vars>>

\* the second try block (fallback_service.py:43-48) and the rest of the request
ScrapeFlipkart ==
    /\ pc = "flipkart"
    /\ \E outcome \in FlipkartOutcomes :
         LET fk == scrape_flipkart(outcome)
         IN /\ fk_kind' = outcome.kind
            /\ fk_results' = fk
            /\ FallbackReturn(agg_results \o amz_results \o fk)
    /\ trace' = trace \o FlipkartTrySteps
    /\ UNCHANGED <<has_app, primary_kind, primary_results, fallback_calls,
                   agg_kind, agg_results, amz_kind, amz_results>>
    /\ UNCHANGED price_vars
    /\ UNCHANGED <<session_vars, inspect_vars>>

Next == FirecrawlSearch \/ ScrapeSearchEngine \/ ScrapeAmazon \/ ScrapeFlipkart

Spec == Init /\ [][Next]_vars

-----------------------------------------------------------------------------
(* SpecSessions: overlapping requests to the one process *)

InitSessions ==
    /\ has_app \in BOOLEAN
    /\ SearchQuiet
    /\ PriceQuiet
    /\ SessionsQuiet
    /\ InspectQuiet

SpecSessions == InitSessions /\ [][NextSessions]_vars

-----------------------------------------------------------------------------
(* SpecPrice: the extractors applied to every sample text *)

InitPrice ==
    /\ text \in Texts
    /\ pp_done = FALSE /\ pp_result = Zero
    /\ ep_done = FALSE /\ ep_result = Zero
    /\ has_app = FALSE
    /\ SearchQuiet
    /\ SessionsQuiet
    /\ InspectQuiet

ParsePrice ==
    /\ ~pp_done
    /\ pp_done' = TRUE
    /\ pp_result' = _parse_price(text)
    /\ UNCHANGED <<text, ep_done, ep_result>>
    /\ UNCHANGED search_vars
    /\ UNCHANGED <<session_vars, inspect_vars>>

ExtractPrice ==
    /\ ~ep_done
    /\ ep_done' = TRUE
    /\ ep_result' = _extract_price(text)
    /\ UNCHANGED <<text, pp_done, pp_result>>
    /\ UNCHANGED search_vars
    /\ UNCHANGED <<session_vars, inspect_vars>>

NextPrice == ParsePrice \/ ExtractPrice

SpecPrice == InitPrice /\ [][NextPrice]_vars

-----------------------------------------------------------------------------
(* SpecInspect: one request to /api/inspect *)

ContentCap == 2000
DescriptionCap == 500
BodyCap == 5000

\* Python's `a or b` on texts
OrText(a, b) == IF a = None \/ a = <<>> THEN b ELSE a

RECURSIVE OrAll(_)
\* a chain `s[1] or s[2] or ...` over a non-empty sequence of texts
OrAll(s) == IF Len(s) = 1 THEN s[1] ELSE OrText(s[1], OrAll(Tail(s)))

\* the dict that scrape_page and parse_page return
PageRecord(price, title, description, u) ==
    [price |-> price, title |-> title, description |-> description,
     url |-> u, currency |-> "INR"]

\* the truth value of an optional dict: <<>> is None, <<d>> is a dict with keys
Truthy(data) == data # <<>>

\* the try block of scrape_page (scraper_service.py:81-95). val is <<d>> when
\* the block returns the dict d, and <<>> when execution leaves it otherwise.
\* A truthy answer that is not a dict has no get
FirecrawlScrapeTry(u, outcome) ==
    IF outcome.kind \in {"exception", "other"} THEN Raised(<<>>)
    ELSE IF outcome.kind \in {"none", "empty"} THEN Normal(<<>>)
    ELSE Bind(OrText(outcome.markdown, outcome.content), LAMBDA content :
           Normal(<<PageRecord(_extract_price(Take(content, ContentCap)),
                               outcome.title,
                               OrText(outcome.description, Take(content, DescriptionCap)),
                               u)>>))

\* except Exception (scraper_service.py:96-97): printed, execution goes on
ExceptFirecrawlScrape(t) == Normal(<<>>)

\* scrape_page up to its last line (scraper_service.py:80-97)
ScrapePagePrimary(app, u, outcome) ==
    IF ~app THEN Normal(<<>>)
    ELSE Bind(FirecrawlScrapeTry(u, outcome), LAMBDA t :
           IF t.exc THEN ExceptFirecrawlScrape(t) ELSE t)

\* FallbackScraper.parse_page (fallback_service.py:227-268): <<>> is None
parse_page(u, outcome) ==
    IF outcome.kind \in {"exception", "status"} THEN <<>>
    ELSE Bind(_parse_price(OrAll(outcome.selectors)), LAMBDA price :
           <<PageRecord(IF price = Zero
                        THEN _parse_price(Take(outcome.body, BodyCap))
                        ELSE price,
                        Strip(OrText(OrText(outcome.h1, outcome.title), <<>>)),
                        OrText(outcome.description, <<>>),
                        u)>>)

\* the second try block of inspect_url (main_simple.py:142-144)
InspectFallbackTry(u, outcome) == Normal(parse_page(u, outcome))

\* what inspect_url answers for the value it returns
Answer(data) ==
    IF Truthy(data) THEN [kind |-> "data", data |-> data]
    ELSE [kind |-> "null", data |-> <<>>]
\* main_simple.py:145-147
CouldNotScrape == [kind |-> "error", data |-> <<>>]

(* Sample answers of the remote ends *)

InspectUrls == {U_amazon_a, U_shop}

ScrapeOutcome(kind, markdown, content, description) ==
    [kind |-> kind, markdown |-> markdown, content |-> content,
     title |-> TV, description |-> description]

ScrapeUrlOutcomes ==
    {ScrapeOutcome(k, <<>>, <<>>, <<>>) : k \in {"exception", "none", "empty", "other"}}
    \cup {ScrapeOutcome("dict", <<RUPEE>> \o N1200, <<>>, TV),
          ScrapeOutcome("dict", <<>>, <<"P","r","i","c","e",":"," ">> \o N1200, <<>>),
          ScrapeOutcome("dict", <<>>, <<>>, <<>>)}

PageOutcome(kind, selectors, body, h1) ==
    [kind |-> kind, selectors |-> selectors, body |-> body,
     h1 |-> h1, title |-> <<"S","h","o","p">>, description |-> None]

PageSelectors ==
    {<<None, None, None, None>>,
     <<<<RUPEE>> \o N1200, None, None, None>>,
     <<None, None, <<RUPEE>> \o N10, <<"R","s","."," ">> \o N999_50>>}

PageBodies == {<<>>, <<"R","s","."," ">> \o N999_50}

PageOutcomes ==
    {PageOutcome(k, <<None, None, None, None>>, <<>>, None) : k \in {"exception", "status"}}
    \cup {PageOutcome("ok", sel, body, h1) :
            sel \in PageSelectors, body \in PageBodies, h1 \in {None, <<" ","T","V"," ">>}}

(* The request *)

\* POST /api/inspect arrives (main_simple.py:131-133)
InspectRequest ==
    /\ inspect_pc = "idle"
    /\ req_url' \in InspectUrls
    /\ inspect_pc' = "scrape_page"
    /\ UNCHANGED <<scrape_kind, inspect_trace, fetched, page_data, response>>
    /\ UNCHANGED <<price_vars, search_vars, session_vars>>

\* scraper.scrape_page(req.url) up to its last line; a dict returned here is
\* what inspect_url returns (main_simple.py:136-138)
FirecrawlScrapeUrl ==
    /\ inspect_pc = "scrape_page"
    /\ \E outcome \in ScrapeUrlOutcomes :
         LET t == ScrapePagePrimary(has_app, req_url, outcome)
         IN /\ scrape_kind' = IF has_app THEN outcome.kind ELSE "no_app"
            /\ inspect_trace' = IF has_app THEN Append(inspect_trace, "app.scrape_url")
                                ELSE inspect_trace
            /\ IF Truthy(t.val)
               THEN /\ inspect_pc' = "done"
                    /\ response' = Answer(t.val)
               ELSE /\ inspect_pc' = "scrape_page_fallback"
                    /\ UNCHANGED response
    /\ UNCHANGED <<req_url, fetched, page_data>>
    /\ UNCHANGED <<price_vars, search_vars, session_vars>>

\* the last line of scrape_page (scraper_service.py:100) and the test of its
\* value in inspect_url (main_simple.py:137-138)
ScrapePageFallback ==
    /\ inspect_pc = "scrape_page_fallback"
    /\ \E outcome \in PageOutcomes :
         LET data == parse_page(req_url, outcome)
         IN /\ page_data' = data
            /\ IF Truthy(data)
               THEN /\ inspect_pc' = "done"
                    /\ response' = Answer(data)
               ELSE /\ inspect_pc' = "inspect_fallback"
                    /\ UNCHANGED response
    /\ inspect_trace' = Append(inspect_trace, "fallback.parse_page")
    /\ fetched' = Append(fetched, req_url)
    /\ UNCHANGED <<req_url, scrape_kind>>
    /\ UNCHANGED <<price_vars, search_vars, session_vars>>

\* the second try block of inspect_url (main_simple.py:142-147)
InspectFallback ==
    /\ inspect_pc = "inspect_fallback"
    /\ \E outcome \in PageOutcomes :
         LET t == InspectFallbackTry(req_url, outcome)
         IN response' = IF t.exc THEN CouldNotScrape ELSE Answer(t.val)
    /\ inspect_trace' = Append(inspect_trace, "fallback.parse_page")
    /\ fetched' = Append(fetched, req_url)
    /\ inspect_pc' = "done"
    /\ UNCHANGED <<req_url, scrape_kind, page_data>>
    /\ UNCHANGED <<price_vars, search_vars, session_vars>>

NextInspect == InspectRequest \/ FirecrawlScrapeUrl \/ ScrapePageFallback \/ InspectFallback

InitInspect ==
    /\ has_app \in BOOLEAN
    /\ SearchQuiet
    /\ PriceQuiet
    /\ SessionsQuiet
    /\ InspectQuiet

SpecInspect == InitInspect /\ [][NextInspect]_vars

-----------------------------------------------------------------------------
(* Properties of one search request (Spec) *)

Done == pc = "done"
Range(s) == {s[k] : k \in 1..Len(s)}
Count(s, x) == Cardinality({k \in 1..Len(s) : s[k] = x})
Sentinel(marketplace) == IF marketplace = NoMarketplace THEN OnlineStore ELSE marketplace

\* C1 as stated: every record search_products returns has price > 0
C1_AllReturnedPricesPositive ==
    Done => \A r \in Range(svc_result) : Positive(r.price)

\* C1, amended: the direct scrapers never return a record with price 0, and
\* a returned record with price 0 comes from the primary tier, or from the
\* aggregator for a link of a known marketplace
C1_ZeroPriceOnlyPrimaryOrKnownMarketplace ==
    /\ \A r \in Range(amz_results) \cup Range(fk_results) : Positive(r.price)
    /\ Done =>
         \A r \in Range(svc_result) :
             \/ Positive(r.price)
             \/ primary_results # <<>>
             \/ /\ r \in Range(agg_results)
                /\ _identify_marketplace(r.url) # NoMarketplace
                /\ r.marketplace = _identify_marketplace(r.url)

C1_Witness ==
    /\ Done
    /\ primary_results = <<>>
    /\ \E r \in Range(svc_result) : ~Positive(r.price)
    /\ amz_kind = "ok" /\ fk_results # <<>>

\* C2 as stated: no two records search_products returns share a url
C2_ReturnedUrlsUnique ==
    Done => \A i, j \in 1..Len(svc_result) :
                i # j => svc_result[i].url # svc_result[j].url

\* the candidates of FallbackScraper.search in the order they are collected
Collected == agg_results \o amz_results \o fk_results
FirstOccurrences(s) == {k \in 1..Len(s) : \A j \in 1..(k - 1) : s[j].url # s[k].url}
\* the n-th smallest element of the set of indices K
NthOf(K, n) == CHOOSE k \in K : Cardinality({j \in K : j <= k}) = n

\* C3: FallbackScraper.search returns the collected candidates (aggregator,
\* Amazon, Flipkart) with exactly the first occurrence of every url, each
\* unchanged, in the order of collection
C3_FallbackKeepsFirstOccurrences ==
    (Done /\ fallback_calls > 0) =>
        /\ Len(fb_result) = Cardinality(FirstOccurrences(Collected))
        /\ \A n \in 1..Len(fb_result) :
               fb_result[n] = Collected[NthOf(FirstOccurrences(Collected), n)]

C3_Witness ==
    /\ Done /\ fallback_calls > 0
    /\ amz_results # <<>> /\ fk_results # <<>>
    /\ Len(fb_result) < Len(Collected)
    /\ \E i, j \in 1..Len(Collected) :
           i < j /\ Collected[i].url = Collected[j].url /\ Collected[i] # Collected[j]

\* C4: the direct scrapers are called, once each, exactly when the
\* aggregator returned fewer than 2 candidates
C4_EscalationIffFewerThanTwo ==
    /\ Count(trace, "scrape_amazon") <= 1 /\ Count(trace, "scrape_flipkart") <= 1
    /\ (Done /\ fallback_calls > 0) =>
         IF Len(agg_results) < 2
         THEN Count(trace, "scrape_amazon") = 1 /\ Count(trace, "scrape_flipkart") = 1
         ELSE Count(trace, "scrape_amazon") = 0 /\ Count(trace, "scrape_flipkart") = 0

C4_Witness ==
    /\ Done
    /\ Len(agg_results) = 1
    /\ Count(trace, "scrape_amazon") = 1 /\ Count(trace, "scrape_flipkart") = 1

\* C5: a non-empty primary result is returned as it is, without any call of
\* FallbackScraper.search; otherwise the fallback is called once and its
\* result is what is returned
C5_ExactlyOneTier ==
    /\ fallback_calls <= 1
    /\ Count(trace, "scrape_search_engine") <= fallback_calls
    /\ Done => Count(trace, "scrape_search_engine") = fallback_calls
    /\ primary_results # <<>> => fallback_calls = 0
    /\ Done => IF primary_results # <<>>
               THEN svc_result = primary_results
               ELSE fallback_calls = 1 /\ svc_result = fb_result

C5_Witness ==
    /\ Done
    /\ Len(primary_results) = 2
    /\ fallback_calls = 0 /\ trace = <<"firecrawl.search">>
    /\ svc_result = primary_results

Failed(kind) == kind \in {"exception", "status"}

\* C6: no exception leaves search_products, a request that is not answered
\* yet can go on, a failed primary call leads to the fallback, and when
\* every tier fails the result is empty
C6_NeverRaisesWorstCaseEmpty ==
    /\ pc # "raised"
    /\ Done \/ ENABLED Next
    /\ (pc # "idle" /\ primary_kind \in {"exception", "no_app", "other"}) => fallback_calls = 1
    /\ (Done /\ fallback_calls = 1 /\ Failed(agg_kind) /\ Failed(amz_kind) /\ Failed(fk_kind))
           => svc_result = <<>>

C6_Witness ==
    /\ Done
    /\ primary_kind = "exception"
    /\ agg_kind = "exception" /\ amz_kind = "exception" /\ fk_kind = "status"
    /\ svc_result = <<>>

\* C8 as stated: the marketplace _parse_results gives a record is the answer
\* of _identify_marketplace for its url, or the sentinel
C8_PrimaryMarketplaceIsIdentifier ==
    \A r \in Range(primary_results) :
        r.marketplace = Sentinel(_identify_marketplace(r.url))

PositiveIndices == {k \in 1..Len(prices) : Positive(prices[k].price)}

\* C9: best_price is the earliest record of prices whose price is the least
\* price above 0, and None exactly when no record has a price above 0
C9_BestPriceIsEarliestMinimum ==
    Done =>
        /\ Len(prices) = Len(svc_result)
        /\ best_price = <<>> <=> PositiveIndices = {}
        /\ PositiveIndices # {} =>
             \E k \in PositiveIndices :
                 /\ best_price = <<prices[k]>>
                 /\ \A j \in PositiveIndices :
                        /\ ~Less(prices[j].price, prices[k].price)
                        /\ j < k => Less(prices[k].price, prices[j].price)

C9_Witness ==
    /\ Done
    /\ Len(prices) = 2
    /\ best_price = <<prices[1]>>
    /\ prices[2].price = prices[1].price
    /\ prices[2] # prices[1]

-----------------------------------------------------------------------------
(* Properties of the price extractors (SpecPrice) *)

InOpenRange(val) == Gt(val, 49) /\ Lt(val, 10000000)

\* C7 as stated: both extractors return 0 or a value in the open range
\* (49, 10,000,000)
C7_BothExtractorsInOpenRange ==
    /\ pp_done => (pp_result = Zero \/ InOpenRange(pp_result))
    /\ ep_done => (ep_result = Zero \/ InOpenRange(ep_result))

\* the values matched in txt by a pattern of either extractor
MatchedValues(txt) ==
    IF txt = None \/ txt = <<>> THEN {}
    ELSE Range(Candidates(<<PatPrefix, PatSuffix, PatLabel>>, ReplaceNbsp(txt)))
NoExcludedYearMatched(txt) ==
    \A v \in MatchedValues(txt) : \A y \in ExcludedYears : ~Eq(v, y)

\* C12 as stated: on every text in which no matched value is an excluded
\* year (2023, 2024, 2025), _extract_price and _parse_price return the same
\* value
C12_ExtractorsAgreeOutsideExcludedYears ==
    (pp_done /\ ep_done /\ NoExcludedYearMatched(text)) => pp_result = ep_result

-----------------------------------------------------------------------------
(* Properties of the process (SpecSessions) *)

FallbackTrace == SelectSeq(trace, LAMBDA e : e # "firecrawl.search")
EscalationSteps ==
    <<"scrape_search_engine", "sleep", "scrape_amazon", "sleep", "scrape_flipkart">>
IsPrefix(s, t) == Len(s) <= Len(t) /\ \A k \in 1..Len(s) : s[k] = t[k]
Escalated == fallback_calls = 1 /\ agg_kind # "" /\ Len(agg_results) < 2
CollectedBefore == agg_results \o amz_results
NewWithFlipkart(r) == \A b \in Range(CollectedBefore) : b.url # r.url

\* C11: an escalated FallbackScraper.search calls the aggregator, a delay,
\* the Amazon scraper, a delay and the Flipkart scraper in this order, one
\* after the other; however the Amazon scraper ended (exception included)
\* the delay and the Flipkart scraper still run, and the Flipkart candidates
\* come in the result after everything collected before
C11_EscalationStepsInOrder ==
    /\ IsPrefix(FallbackTrace, EscalationSteps)
    /\ (Escalated /\ pc = "amazon") =>
          FallbackTrace = SubSeq(EscalationSteps, 1, 1) /\ ENABLED ScrapeAmazon
    /\ (Escalated /\ pc = "flipkart") =>
          FallbackTrace = SubSeq(EscalationSteps, 1, 3) /\ ENABLED ScrapeFlipkart
    /\ (Escalated /\ Done) =>
          /\ FallbackTrace = EscalationSteps
          /\ \A f \in Range(fk_results) : \E k \in 1..Len(fb_result) : fb_result[k].url = f.url
          /\ \A k \in 1..Len(fb_result) :
                 NewWithFlipkart(fb_result[k]) =>
                     /\ fb_result[k] \in Range(fk_results)
                     /\ \A j \in (k + 1)..Len(fb_result) : NewWithFlipkart(fb_result[j])

C11_Witness ==
    /\ Escalated /\ Done
    /\ amz_kind = "exception"
    /\ agg_results # <<>> /\ fk_results # <<>>
    /\ FallbackTrace = EscalationSteps
    /\ fb_result[Len(fb_result)] \in Range(fk_results)
    /\ NewWithFlipkart(fb_result[Len(fb_result)])

-----------------------------------------------------------------------------
(* Properties of one inspect request (SpecInspect) *)

InspectDone == inspect_pc = "done"
ParsePageCalls == Count(inspect_trace, "fallback.parse_page")

\* C13 as stated: within one inspect request parse_page is called only when
\* the primary scrape gave no value, and at most once; when it returns
\* nothing the request ends with the null or error answer and the url is
\* not fetched a second time
C13_FallbackParserAtMostOnce ==
    /\ ParsePageCalls > 0 => scrape_kind # "dict"
    /\ ParsePageCalls <= 1
    /\ Len(fetched) <= 1
    /\ (InspectDone /\ ParsePageCalls > 0 /\ ~Truthy(page_data)) =>
           response.kind \in {"null", "error"}

====
